---- MODULE Spec2Model ----
(***************************************************************************)
(* SsrMiddleware: the server-side-rendering request pipeline.  Strings are *)
(* sequences of tokens; each HTML marker and each path fragment the code   *)
(* tests for is one token, so String.replace, startsWith and includes are  *)
(* computed position by position as the runtime computes them.             *)
(***************************************************************************)
EXTENDS Integers, Sequences, FiniteSets, TLC

VARIABLES isProd, vite, viteMade, loaded, cache, pc, req, template, log,
          responses, sets, result, clr, asm

vars == <<isProd, vite, viteMade, loaded, cache, pc, req, template, log,
          responses, sets, result, clr, asm>>

\* ------------------------------------------------------------------ bounds
NumReq == 2

Requests == 1..NumReq

\* ------------------------------------------------------- program constants
TTL == 86400000

NoVite == 0

\* an optional value is a set: empty when undefined, else its one-element set
Undefined == {}

Some(v) == {v}

The(o) == CHOOSE v \in o : TRUE

PRELOAD_LINKS == "<!--preload-links-->"
HTML_TAG == "<html>"
BODY_TAG == "<body>"
HEAD_END == "</head>"
SSR_OUTLET == "<!--ssr-outlet-->"
PRELOAD_STATE == "<!--preload-state-->"

Markers == {PRELOAD_LINKS, HTML_TAG, BODY_TAG, HEAD_END, SSR_OUTLET, PRELOAD_STATE}

\* ------------------------------------------------------------ string model
\* s.startsWith(p)
StartsWith(s, p) ==
    /\ Len(s) >= Len(p)
    /\ SubSeq(s, 1, Len(p)) = p

\* s.includes(p)
Includes(s, p) ==
    \E i \in 1..(Len(s) - Len(p) + 1) : SubSeq(s, i, i + Len(p) - 1) = p

\* index of the first occurrence of token m in s, 0 when there is none
IndexOf(s, m) ==
    IF \E i \in 1..Len(s) : s[i] = m
    THEN CHOOSE i \in 1..Len(s) : s[i] = m /\ \A j \in 1..(i - 1) : s[j] # m
    ELSE 0

\* a replacement string as String.replace expands it: "$&" stands for the match
RECURSIVE Expand(_, _)
Expand(rep, m) ==
    IF rep = <<>> THEN <<>>
    ELSE (IF Head(rep) = "$&" THEN <<m>> ELSE <<Head(rep)>>) \o Expand(Tail(rep), m)

\* s.replace(m, rep) with a string pattern: the first occurrence only
Replace(s, m, rep) ==
    LET i == IndexOf(s, m)
    IN IF i = 0 THEN s
       ELSE SubSeq(s, 1, i - 1) \o Expand(rep, m) \o SubSeq(s, i + 1, Len(s))

\* ------------------------------------------------------------------ inputs
\* req.path and the query string; req.originalUrl is their concatenation
Inputs ==
    { [path |-> <<"/home">>,                  query |-> <<>>],
      [path |-> <<"/home">>,                  query |-> <<"?q=/assets">>],
      [path |-> <<"/api", "/users">>,         query |-> <<>>],
      [path |-> <<"/service">>,               query |-> <<>>],
      [path |-> <<"/static", "/assets", "/a.js">>, query |-> <<>>] }

originalUrl(r) == r.path \o r.query

\* index.html as it may be found on disk
FullShell ==
    <<HTML_TAG, "<head>", PRELOAD_LINKS, HEAD_END, BODY_TAG, SSR_OUTLET,
      PRELOAD_STATE, "</body>", "</html>">>

BareShell == <<HTML_TAG, BODY_TAG, "<div id=app>", "</body>", "</html>">>

Templates == {FullShell, BareShell}

\* what the render entry point may resolve with
Rendered ==
    [html |-> <<"<div>A</div>">>, ctx |-> Some([preloadState |-> "x1"]),
     headTags |-> <<"<title>">>, htmlAttrs |-> <<"lang=en">>,
     bodyAttrs |-> <<>>, preloadLinks |-> <<"<link>">>, context |-> Undefined]

\* the same result carrying its state under "context": ctx is not there
NoCtx ==
    [Rendered EXCEPT !.ctx = Undefined,
                     !.context = Some([preloadState |-> "x1"])]

RenderResults == {Rendered, NoCtx}

\* JSON.stringify of the preload states the model draws from
Stringify(v) ==
    CASE v = "x1" -> <<"{\"x\":1}">>
      [] v = "null" -> <<"null">>
      [] OTHER -> <<"undefined">>

\* ------------------------------------------------------- pure functions
\* the key built from req.path, which drops the query string
cacheKeyPath(r) == <<"ssr:">> \o r.path

cacheKey(r) == <<"ssr:">> \o originalUrl(r)

Bypass(path) ==
    \/ StartsWith(path, <<"/api">>)
    \/ StartsWith(path, <<"/service">>)
    \/ Includes(path, <<"/assets">>)

\* the state interpolated into the script without JSON.stringify
preloadStateScriptRaw(ctx) ==
    <<"<script>window.__PRELOAD_STATE__ = ", "[object Object]", "</script>">>

preloadStateScript(ctx) ==
    <<"<script>window.__PRELOAD_STATE__ = ">> \o Stringify(The(ctx).preloadState)
        \o <<"</script>">>

\* the assembler with the <body> substitution left out
AssembleNoBody(t, res) ==
    LET s1 == Replace(t, PRELOAD_LINKS, res.preloadLinks)
        s2 == Replace(s1, HTML_TAG, <<"<html ">> \o res.htmlAttrs \o <<">">>)
        s4 == Replace(s2, HEAD_END, res.headTags \o <<HEAD_END>>)
        s5 == Replace(s4, SSR_OUTLET, res.html)
    IN Replace(s5, PRELOAD_STATE, preloadStateScript(res.ctx))

\* the assembler writing the state script where the app HTML belongs
AssembleSwapped(t, res) ==
    LET s1 == Replace(t, PRELOAD_LINKS, res.preloadLinks)
        s2 == Replace(s1, HTML_TAG, <<"<html ">> \o res.htmlAttrs \o <<">">>)
        s3 == Replace(s2, BODY_TAG, <<"<body ">> \o res.bodyAttrs \o <<">">>)
        s4 == Replace(s3, HEAD_END, res.headTags \o <<HEAD_END>>)
        s5 == Replace(s4, SSR_OUTLET, preloadStateScript(res.ctx))
    IN Replace(s5, PRELOAD_STATE, res.html)

Assemble(t, res) ==
    LET s1 == Replace(t, PRELOAD_LINKS, res.preloadLinks)
        s2 == Replace(s1, HTML_TAG, <<"<html ">> \o res.htmlAttrs \o <<">">>)
        s3 == Replace(s2, BODY_TAG, <<"<body ">> \o res.bodyAttrs \o <<">">>)
        s4 == Replace(s3, HEAD_END, res.headTags \o <<HEAD_END>>)
        s5 == Replace(s4, SSR_OUTLET, res.html)
    IN Replace(s5, PRELOAD_STATE, preloadStateScript(res.ctx))

\* vite.transformIndexHtml: the dev client script goes in at the head of <head>
TransformIndexHtml(url, t) ==
    LET i == IndexOf(t, "<head>")
    IN SubSeq(t, 1, i) \o <<"<script @vite/client>">> \o SubSeq(t, i + 1, Len(t))

Page(body) == [status |-> 200, type |-> "text/html", body |-> body]

\* the lookup made with the url in place of the cache key
TruthyUrl(k) == Tail(k) \in DOMAIN cache /\ cache[Tail(k)].value # <<>>

\* if (cachedPage)
Truthy(k) == k \in DOMAIN cache /\ cache[k].value # <<>>

\* the outer catch block without the stack remapping
OuterCatchNoRemap(v) == <<"console.error", "next(e)">>

\* the outer catch block: remap the stack in development, record, delegate
OuterCatch(v) ==
    (IF ~isProd /\ v # NoVite THEN <<"ssrFixStacktrace">> ELSE <<>>)
        \o <<"console.error", "next(e)">>

\* ------------------------------------------------------------------- state
\* the cache store holds other modules' entries as well
InitCache == <<"other:", "/c">> :> [value |-> <<"c">>, ttl |-> 0]

\* clearCache before it is called
ClearIdle ==
    [pc |-> "idle", keys |-> {}, pending |-> {}, log |-> <<>>, ret |-> {},
     stamp |-> 0, past |-> {}]

\* the assembler before it is applied
AsmIdle == [phase |-> "idle"]

Init ==
    /\ isProd \in BOOLEAN
    /\ vite = NoVite
    /\ viteMade = 0
    /\ loaded = {}
    /\ cache = InitCache
    /\ pc = [r \in Requests |-> "idle"]
    /\ req = [r \in Requests |-> [path |-> <<>>, query |-> <<>>]]
    /\ template = [r \in Requests |-> Undefined]
    /\ log = [r \in Requests |-> <<>>]
    /\ responses = [r \in Requests |-> <<>>]
    /\ sets = [r \in Requests |-> <<>>]
    /\ result = [r \in Requests |-> Undefined]
    /\ clr = ClearIdle
    /\ asm = AsmIdle

\* what the file system and the module loader hand out on one attempt
Disk ==
    [manifest : BOOLEAN, index : {Undefined} \cup {Some(t) : t \in Templates},
     entry : BOOLEAN]

\* readFileSync of index.html and what follows it up to the next await
ReadTemplate(d, v, ld) ==
    IF d.index = Undefined
    THEN [pc |-> "done", log |-> <<"readFileSync", "throw">> \o OuterCatch(v),
          template |-> Undefined, loaded |-> ld]
    ELSE IF ~isProd
    THEN [pc |-> "transformIndexHtml",
          log |-> <<"readFileSync", "transformIndexHtml">>,
          template |-> d.index, loaded |-> ld]
    ELSE IF ~(d.entry \/ "entry" \in ld)
    THEN [pc |-> "done",
          log |-> <<"readFileSync", "require(entry)", "throw">> \o OuterCatch(v),
          template |-> d.index, loaded |-> ld]
    ELSE [pc |-> "getPrefetchData",
          log |-> <<"readFileSync", "require(entry)", "getPrefetchData">>,
          template |-> d.index, loaded |-> ld \cup {"entry"}]

\* the bypass rule and the loading steps, run to the next await
Resolve(q, d) ==
    IF Bypass(q.path)
    THEN [pc |-> "done", log |-> <<"next()">>, template |-> Undefined,
          loaded |-> loaded]
    ELSE IF ~(d.manifest \/ "manifest" \in loaded)
    THEN [pc |-> "done", log |-> <<"require(manifest)", "throw">> \o OuterCatch(vite),
          template |-> Undefined, loaded |-> loaded]
    ELSE IF ~isProd /\ vite = NoVite
    THEN [pc |-> "createServer", log |-> <<"require(manifest)", "createServer">>,
          template |-> Undefined, loaded |-> loaded \cup {"manifest"}]
    ELSE LET n == ReadTemplate(d, vite, loaded \cup {"manifest"})
         IN [n EXCEPT !.log = <<"require(manifest)">> \o @]

\* the inner catch block answering with the template left as it is
InnerCatchKeepsOutlet(r, v) ==
    IF responses[r] # <<>>
    THEN [log |-> <<"console.error", "res.set", "throw">> \o OuterCatch(v),
          responses |-> responses[r]]
    ELSE [log |-> <<"console.error", "res.end">>,
          responses |-> Append(responses[r], Page(The(template[r])))]

\* the inner catch block handing the error on as the outer one does
InnerCatchDelegates(r, v) ==
    [log |-> OuterCatch(v), responses |-> responses[r]]

\* the inner catch block: record, then answer with the shell
InnerCatch(r, v) ==
    LET html == Replace(The(template[r]), SSR_OUTLET, <<>>)
    IN IF responses[r] # <<>>
       THEN [log |-> <<"console.error", "res.set", "throw">> \o OuterCatch(v),
             responses |-> responses[r]]
       ELSE [log |-> <<"console.error", "res.end">>,
             responses |-> Append(responses[r], Page(html))]

\* ----------------------------------------------------------------- actions
Enter(r, n) ==
    /\ pc' = [pc EXCEPT ![r] = n.pc]
    /\ log' = [log EXCEPT ![r] = @ \o n.log]
    /\ template' = [template EXCEPT ![r] = n.template]
    /\ loaded' = n.loaded

\* requests are numbered in their order of arrival
Arrives(r) ==
    /\ pc[r] = "idle"
    /\ \A o \in 1..(r - 1) : pc[o] # "idle"

\* a request arrives in production: the cache lookup is issued first
UseProd(r) ==
    /\ Arrives(r)
    /\ isProd
    /\ \E q \in Inputs : req' = [req EXCEPT ![r] = q]
    /\ pc' = [pc EXCEPT ![r] = "cache.get"]
    /\ log' = [log EXCEPT ![r] = @ \o <<"cache.get">>]
    /\ UNCHANGED <<result, clr, asm, isProd, vite, viteMade, loaded, cache, template, responses, sets>>

\* a request arrives in development: no cache, straight to the bypass rule
UseDev(r) ==
    /\ Arrives(r)
    /\ ~isProd
    /\ \E q \in Inputs, d \in Disk :
          /\ req' = [req EXCEPT ![r] = q]
          /\ Enter(r, Resolve(q, d))
    /\ UNCHANGED <<result, clr, asm, isProd, vite, viteMade, cache, responses, sets>>

\* cacheManager.get resolves with a page
CacheHit(r) ==
    /\ pc[r] = "cache.get"
    /\ Truthy(cacheKey(req[r]))
    /\ pc' = [pc EXCEPT ![r] = "done"]
    /\ log' = [log EXCEPT ![r] = @ \o <<"hit", "res.end">>]
    /\ responses' = [responses EXCEPT
                       ![r] = Append(@, Page(cache[cacheKey(req[r])].value))]
    /\ UNCHANGED <<result, clr, asm, isProd, vite, viteMade, loaded, cache, req, template, sets>>

\* cacheManager.get resolves with nothing
CacheMiss(r) ==
    /\ pc[r] = "cache.get"
    /\ ~Truthy(cacheKey(req[r]))
    /\ \E d \in Disk :
          LET n == Resolve(req[r], d)
          IN Enter(r, [n EXCEPT !.log = <<"miss">> \o @])
    /\ UNCHANGED <<result, clr, asm, isProd, vite, viteMade, cache, req, responses, sets>>

\* cacheManager.get rejects: nothing in use() catches it
CacheGetRejects(r) ==
    /\ pc[r] = "cache.get"
    /\ pc' = [pc EXCEPT ![r] = "rejected"]
    /\ log' = [log EXCEPT ![r] = @ \o <<"throw">>]
    /\ UNCHANGED <<result, clr, asm, isProd, vite, viteMade, loaded, cache, req, template, responses, sets>>

\* createServer resolves: the handle is assigned, then the shell is read
CreateServerResolves(r) ==
    /\ pc[r] = "createServer"
    /\ viteMade' = viteMade + 1
    /\ vite' = viteMade + 1
    /\ \E d \in Disk : Enter(r, ReadTemplate(d, vite', loaded))
    /\ UNCHANGED <<result, clr, asm, isProd, cache, req, responses, sets>>

\* an awaited loading step rejects: the outer catch block runs
LoadRejects(r) ==
    /\ pc[r] \in {"createServer", "transformIndexHtml", "ssrLoadModule"}
    /\ pc' = [pc EXCEPT ![r] = "done"]
    /\ log' = [log EXCEPT ![r] = @ \o <<"throw">> \o OuterCatch(vite)]
    /\ UNCHANGED <<result, clr, asm, isProd, vite, viteMade, loaded, cache, req, template, responses, sets>>

TransformResolves(r) ==
    /\ pc[r] = "transformIndexHtml"
    /\ template' = [template EXCEPT
                      ![r] = Some(TransformIndexHtml(originalUrl(req[r]), The(@)))]
    /\ pc' = [pc EXCEPT ![r] = "ssrLoadModule"]
    /\ log' = [log EXCEPT ![r] = @ \o <<"ssrLoadModule">>]
    /\ UNCHANGED <<result, clr, asm, isProd, vite, viteMade, loaded, cache, req, responses, sets>>

LoadModuleResolves(r) ==
    /\ pc[r] = "ssrLoadModule"
    /\ pc' = [pc EXCEPT ![r] = "getPrefetchData"]
    /\ log' = [log EXCEPT ![r] = @ \o <<"getPrefetchData">>]
    /\ UNCHANGED <<result, clr, asm, isProd, vite, viteMade, loaded, cache, req, template, responses, sets>>

PrefetchResolves(r) ==
    /\ pc[r] = "getPrefetchData"
    /\ pc' = [pc EXCEPT ![r] = "render"]
    /\ log' = [log EXCEPT ![r] = @ \o <<"render">>]
    /\ UNCHANGED <<result, clr, asm, isProd, vite, viteMade, loaded, cache, req, template, responses, sets>>

\* getPrefetchData or render rejects: both sit in the inner try block
InnerRejects(r) ==
    /\ pc[r] \in {"getPrefetchData", "render"}
    /\ LET c == InnerCatch(r, vite)
       IN /\ log' = [log EXCEPT ![r] = @ \o <<"throw">> \o c.log]
          /\ responses' = [responses EXCEPT ![r] = c.responses]
    /\ pc' = [pc EXCEPT ![r] = "done"]
    /\ UNCHANGED <<result, clr, asm, isProd, vite, viteMade, loaded, cache, req, template, sets>>

\* render resolves: assemble, answer, and in production issue the cache write
RenderResolves(r) ==
    /\ pc[r] = "render"
    /\ \E res \in RenderResults :
          /\ result' = [result EXCEPT ![r] = Some(res)]
          /\ IF res.ctx = Undefined
             THEN LET c == InnerCatch(r, vite)
                  IN /\ log' = [log EXCEPT ![r] = @ \o <<"stringify", "throw">> \o c.log]
                     /\ responses' = [responses EXCEPT ![r] = c.responses]
                     /\ pc' = [pc EXCEPT ![r] = "done"]
                     /\ sets' = sets
             ELSE LET html == Assemble(The(template[r]), res)
                  IN /\ responses' = [responses EXCEPT ![r] = Append(@, Page(html))]
                     /\ IF isProd
                        THEN /\ sets' = [sets EXCEPT ![r] = Append(@,
                                           [key |-> cacheKey(req[r]), value |-> html,
                                            ttl |-> TTL])]
                             /\ log' = [log EXCEPT ![r] = @ \o <<"res.end", "cache.set">>]
                             /\ pc' = [pc EXCEPT ![r] = "cache.set"]
                        ELSE /\ sets' = sets
                             /\ log' = [log EXCEPT ![r] = @ \o <<"res.end">>]
                             /\ pc' = [pc EXCEPT ![r] = "done"]
    /\ UNCHANGED <<clr, asm, isProd, vite, viteMade, loaded, cache, req, template>>

CacheSetResolvesPartial(r) ==
    /\ pc[r] = "cache.set"
    /\ LET c == sets[r][Len(sets[r])]
       IN cache' = [k \in DOMAIN cache \cup {c.key} |->
                      IF k = c.key
                      THEN [value |-> SubSeq(c.value, 1, Len(c.value) - 1),
                            ttl |-> c.ttl]
                      ELSE cache[k]]
    /\ pc' = [pc EXCEPT ![r] = "done"]
    /\ UNCHANGED <<result, clr, asm, isProd, vite, viteMade, loaded, req, template, log, responses, sets>>

CacheSetResolvesFirstWins(r) ==
    /\ pc[r] = "cache.set"
    /\ LET c == sets[r][Len(sets[r])]
       IN cache' = [k \in DOMAIN cache \cup {c.key} |->
                      IF k \in DOMAIN cache THEN cache[k]
                      ELSE [value |-> c.value, ttl |-> c.ttl]]
    /\ pc' = [pc EXCEPT ![r] = "done"]
    /\ UNCHANGED <<result, clr, asm, isProd, vite, viteMade, loaded, req, template, log, responses, sets>>

\* cacheManager.set resolves: the entry is in the store
CacheSetResolves(r) ==
    /\ pc[r] = "cache.set"
    /\ LET c == sets[r][Len(sets[r])]
       IN cache' = [k \in DOMAIN cache \cup {c.key} |->
                      IF k = c.key THEN [value |-> c.value, ttl |-> c.ttl]
                      ELSE cache[k]]
    /\ pc' = [pc EXCEPT ![r] = "done"]
    /\ UNCHANGED <<result, clr, asm, isProd, vite, viteMade, loaded, req, template, log, responses, sets>>

\* cacheManager.set rejects inside the inner try block
CacheSetRejects(r) ==
    /\ pc[r] = "cache.set"
    /\ LET c == InnerCatch(r, vite)
       IN /\ log' = [log EXCEPT ![r] = @ \o <<"throw">> \o c.log]
          /\ responses' = [responses EXCEPT ![r] = c.responses]
    /\ pc' = [pc EXCEPT ![r] = "done"]
    /\ UNCHANGED <<result, clr, asm, isProd, vite, viteMade, loaded, cache, req, template, sets>>

\* an entry outlives its time to live and the store drops it
Expire ==
    /\ \E k \in DOMAIN cache :
          /\ cache[k].ttl > 0
          /\ cache' = [j \in DOMAIN cache \ {k} |-> cache[j]]
    /\ UNCHANGED <<result, clr, asm, isProd, vite, viteMade, loaded, pc, req, template, log, responses, sets>>

\* ------------------------------------------------------ the HTML assembler
\* templates in which each marker stands at most once
Scenario ==
    <<HTML_TAG, "<head>", HEAD_END, BODY_TAG, SSR_OUTLET, PRELOAD_STATE,
      "</body>", "</html>">>

StateFirst ==
    <<HTML_TAG, "<head>", HEAD_END, BODY_TAG, PRELOAD_STATE, SSR_OUTLET,
      PRELOAD_LINKS, "</body>", "</html>">>

AsmTemplates ==
    {FullShell, StateFirst, BareShell, Scenario, <<SSR_OUTLET>>, <<"<p>">>}

\* render results, some of whose strings hold marker text or a "$&" pattern
AsmResults ==
    [html : {<<"<div>A</div>">>, <<"<div>", PRELOAD_STATE, "</div>">>, <<"$&">>},
     ctx : {Some([preloadState |-> "x1"])},
     headTags : {<<>>, <<"<title>">>, <<BODY_TAG>>},
     htmlAttrs : {<<>>, <<"lang=en">>},
     bodyAttrs : {<<>>},
     preloadLinks : {<<>>, <<"<link>">>, <<SSR_OUTLET>>},
     context : {Undefined}]

\* one of the six substitutions of the assembler
Subst(s, m, res) ==
    CASE m = PRELOAD_LINKS -> Replace(s, m, res.preloadLinks)
      [] m = HTML_TAG -> Replace(s, m, <<"<html ">> \o res.htmlAttrs \o <<">">>)
      [] m = BODY_TAG -> Replace(s, m, <<"<body ">> \o res.bodyAttrs \o <<">">>)
      [] m = HEAD_END -> Replace(s, m, res.headTags \o <<HEAD_END>>)
      [] m = SSR_OUTLET -> Replace(s, m, res.html)
      [] m = PRELOAD_STATE -> Replace(s, m, preloadStateScript(res.ctx))

\* the substitutions applied in a given order
RECURSIVE AssembleIn(_, _, _)
AssembleIn(s, res, order) ==
    IF order = <<>> THEN s
    ELSE AssembleIn(Subst(s, Head(order), res), res, Tail(order))

InitAsm ==
    /\ isProd = FALSE
    /\ vite = NoVite
    /\ viteMade = 0
    /\ loaded = {}
    /\ cache = InitCache
    /\ pc = [r \in Requests |-> "idle"]
    /\ req = [r \in Requests |-> [path |-> <<>>, query |-> <<>>]]
    /\ template = [r \in Requests |-> Undefined]
    /\ log = [r \in Requests |-> <<>>]
    /\ responses = [r \in Requests |-> <<>>]
    /\ sets = [r \in Requests |-> <<>>]
    /\ result = [r \in Requests |-> Undefined]
    /\ clr = ClearIdle
    /\ asm \in [phase : {"in"}, t : AsmTemplates, res : AsmResults]

\* the six chained replace calls on one template and one render result
AsmApply ==
    /\ asm.phase = "in"
    /\ asm' = [phase |-> "out", t |-> asm.t, res |-> asm.res,
               html |-> Assemble(asm.t, asm.res)]
    /\ UNCHANGED <<isProd, vite, viteMade, loaded, cache, pc, req, template, log,
                   responses, sets, result, clr>>

NextAsm == AsmApply

SpecAsm == InitAsm /\ [][NextAsm]_vars

\* --------------------------------------------------------------- clearCache
\* clearCache is declared Promise<void>: it resolves with no value
ReturnedCount(n) == Some(n)

Returned(n) == Undefined

\* the number of cache writes the requests have had applied so far
WritesApplied ==
    Cardinality({r \in Requests :
                   /\ pc[r] = "done"
                   /\ log[r] # <<>>
                   /\ log[r][Len(log[r])] = "cache.set"})

\* the requests that are past their cache read and not yet finished
PastRead == {r \in Requests : pc[r] \notin {"idle", "cache.get", "done", "rejected"}}

ssrKeysAll(keys) == keys

ssrKeys(keys) == {k \in keys : StartsWith(k, <<"ssr:">>)}

ClearCatchSwallows(c) ==
    [c EXCEPT !.pc = "done", !.stamp = 0, !.past = {},
              !.log = @ \o <<<<"Failed to clear SSR cache", 0>>>>]

\* the catch block of clearCache: the error is recorded and thrown again
ClearCatch(c) ==
    [c EXCEPT !.pc = "rejected", !.stamp = 0, !.past = {},
              !.log = @ \o <<<<"Failed to clear SSR cache", 0>>>>]

\* clearCache is called and store.keys resolves: the ssr: keys are filtered
\* out and their deletions are all issued at once, or there is nothing to
\* clear
KeysResolve ==
    /\ clr.pc = "idle"
    /\ LET ks == ssrKeys(DOMAIN cache)
       IN clr' = IF ks # {}
                 THEN [clr EXCEPT !.pc = "del", !.keys = ks, !.pending = ks,
                                  !.stamp = WritesApplied, !.past = PastRead]
                 ELSE [clr EXCEPT !.pc = "done", !.ret = Returned(0),
                                  !.log = @ \o <<<<"No SSR cache to clear", 0>>>>,
                                  !.stamp = WritesApplied]
    /\ UNCHANGED <<isProd, vite, viteMade, loaded, cache, pc, req, template, log,
                   responses, sets, result, asm>>

\* clearCache is called and store.keys rejects: recorded and thrown again
KeysReject ==
    /\ clr.pc = "idle"
    /\ clr' = ClearCatch(clr)
    /\ UNCHANGED <<isProd, vite, viteMade, loaded, cache, pc, req, template, log,
                   responses, sets, result, asm>>

DelResolvesKeeps ==
    /\ \E k \in clr.pending :
          /\ cache' = cache
          /\ clr' = IF clr.pc = "del" /\ clr.pending = {k}
                    THEN [clr EXCEPT !.pending = {}, !.pc = "done",
                                     !.ret = Returned(Cardinality(clr.keys)),
                                     !.log = @ \o <<<<"SSR cache cleared",
                                                      Cardinality(clr.keys)>>>>]
                    ELSE [clr EXCEPT !.pending = @ \ {k}]
    /\ UNCHANGED <<isProd, vite, viteMade, loaded, pc, req, template, log,
                   responses, sets, result, asm>>

\* one deletion resolves; Promise.all resolves with the last of them
DelResolves ==
    /\ \E k \in clr.pending :
          /\ cache' = [j \in DOMAIN cache \ {k} |-> cache[j]]
          /\ clr' = IF clr.pc = "del" /\ clr.pending = {k}
                    THEN [clr EXCEPT !.pending = {}, !.pc = "done",
                                     !.ret = Returned(Cardinality(clr.keys)),
                                     !.log = @ \o <<<<"SSR cache cleared",
                                                      Cardinality(clr.keys)>>>>]
                    ELSE [clr EXCEPT !.pending = @ \ {k}]
    /\ UNCHANGED <<isProd, vite, viteMade, loaded, pc, req, template, log,
                   responses, sets, result, asm>>

\* one deletion rejects; Promise.all rejects with the first of them, the
\* other deletions stay in flight
DelRejects ==
    /\ \E k \in clr.pending :
          clr' = IF clr.pc = "del"
                 THEN ClearCatch([clr EXCEPT !.pending = @ \ {k}])
                 ELSE [clr EXCEPT !.pending = @ \ {k}]
    /\ UNCHANGED <<isProd, vite, viteMade, loaded, cache, pc, req, template, log,
                   responses, sets, result, asm>>

clearCache ==
    \/ KeysResolve
    \/ KeysReject
    \/ DelResolves
    \/ DelRejects

Next ==
    \/ \E r \in Requests :
          \/ UseProd(r)
          \/ UseDev(r)
          \/ CacheHit(r)
          \/ CacheMiss(r)
          \/ CacheGetRejects(r)
          \/ CreateServerResolves(r)
          \/ LoadRejects(r)
          \/ TransformResolves(r)
          \/ LoadModuleResolves(r)
          \/ PrefetchResolves(r)
          \/ InnerRejects(r)
          \/ RenderResolves(r)
          \/ CacheSetResolves(r)
          \/ CacheSetRejects(r)
    \/ Expire

Spec == Init /\ [][Next]_vars

\* the production process once its modules are loaded: the requests together
\* with one call of clearCache
InitClear ==
    /\ isProd = TRUE
    /\ vite = NoVite
    /\ viteMade = 0
    /\ loaded = {"manifest", "entry"}
    /\ cache = InitCache
    /\ pc = [r \in Requests |-> "idle"]
    /\ req = [r \in Requests |-> [path |-> <<>>, query |-> <<>>]]
    /\ template = [r \in Requests |-> Undefined]
    /\ log = [r \in Requests |-> <<>>]
    /\ responses = [r \in Requests |-> <<>>]
    /\ sets = [r \in Requests |-> <<>>]
    /\ result = [r \in Requests |-> Undefined]
    /\ clr = ClearIdle
    /\ asm = AsmIdle

NextClear ==
    \/ \E r \in Requests :
          \/ UseProd(r)
          \/ CacheHit(r)
          \/ CacheMiss(r)
          \/ CacheGetRejects(r)
          \/ PrefetchResolves(r)
          \/ InnerRejects(r)
          \/ RenderResolves(r)
          \/ CacheSetResolves(r)
          \/ CacheSetRejects(r)
    \/ Expire
    \/ clearCache

SpecClear == InitClear /\ [][NextClear]_vars

\* ------------------------------------------------------------ observations
Count(s, e) == Cardinality({i \in 1..Len(s) : s[i] = e})

\* event a is directly followed by event b somewhere in s
Then(s, a, b) == \E i \in 1..(Len(s) - 1) : s[i] = a /\ s[i + 1] = b

\* every a in s comes before every b in s
AllBefore(s, a, b) ==
    \A i, j \in 1..Len(s) : (s[i] = a /\ s[j] = b) => i < j

Finished(r) == pc[r] \in {"done", "rejected"}

NextCalls(r) == Count(log[r], "next()") + Count(log[r], "next(e)")

LoadSteps ==
    {"require(manifest)", "createServer", "readFileSync", "transformIndexHtml",
     "ssrLoadModule", "require(entry)"}

LoadFailed(r) ==
    \E i \in 2..Len(log[r]) : log[r][i] = "throw" /\ log[r][i - 1] \in LoadSteps

OkPage(body) == [status |-> 200, type |-> "text/html", body |-> body]

\* body is t with its first app-outlet marker taken out, or t when it has none
IsShellOf(body, t) ==
    \/ /\ \A i \in 1..Len(t) : t[i] # SSR_OUTLET
       /\ body = t
    \/ \E i \in 1..Len(t) :
          /\ t[i] = SSR_OUTLET
          /\ \A j \in 1..(i - 1) : t[j] # SSR_OUTLET
          /\ Len(body) = Len(t) - 1
          /\ \A j \in 1..Len(body) : body[j] = IF j < i THEN t[j] ELSE t[j + 1]

SsrKey(r) == <<"ssr:">> \o req[r].path \o req[r].query

BypassPath(p) ==
    \/ (Len(p) >= 1 /\ p[1] \in {"/api", "/service"})
    \/ \E i \in 1..Len(p) : p[i] = "/assets"

\* ------------------------------------------------------------------ claims

\* C1: every finished request has exactly one outcome, one 200 response or
\* one delegation to the next handler, and no request ever has more than one.
C1_ExactlyOneOutcome ==
    \A r \in Requests :
        /\ Len(responses[r]) + NextCalls(r) <= 1
        /\ Finished(r) => Len(responses[r]) + NextCalls(r) = 1

\* C2: in production, a lookup that finds an entry at "ssr:" + originalUrl
\* answers 200 text/html with the entry's value and loads, prefetches and
\* renders nothing.
C2_CacheHitServed ==
    [][\A r \in Requests :
        (/\ pc[r] = "cache.get"
         /\ pc'[r] \notin {"cache.get", "rejected"}
         /\ SsrKey(r) \in DOMAIN cache)
        => /\ pc'[r] = "done"
           /\ responses'[r] = <<OkPage(cache[SsrKey(r)].value)>>
           /\ \A i \in 1..Len(log'[r]) :
                 log'[r][i] \notin LoadSteps \cup {"getPrefetchData", "render",
                                                  "next()", "next(e)", "cache.set"}]_vars

C2_Witness ==
    \E r \in Requests :
        /\ isProd
        /\ pc[r] = "done"
        /\ Then(log[r], "cache.get", "hit")
        /\ Len(responses[r]) = 1
        /\ responses[r][1].body # <<>>

\* C3: a request on a bypassed path reads no cache, writes no cache, renders
\* nothing, sends nothing and is passed to the next handler.
C3_BypassTouchesNothing ==
    \A r \in Requests :
        (pc[r] # "idle" /\ BypassPath(req[r].path))
        => /\ Count(log[r], "cache.get") = 0
           /\ Count(log[r], "cache.set") = 0
           /\ Count(log[r], "render") = 0
           /\ responses[r] = <<>>
           /\ Finished(r) => Count(log[r], "next()") = 1

\* C4: a production render that succeeds issues one cache write, after the
\* response, keyed "ssr:" + originalUrl with the 24 hour TTL and holding the
\* body that was sent; the entry the write leaves in the store is that body.
RenderSucceeded(r) == Then(log[r], "render", "res.end")

C4_WriteAfterResponse ==
    /\ [](\A r \in Requests :
            (isProd /\ RenderSucceeded(r))
            => /\ Len(responses[r]) >= 1
               /\ sets[r] = <<[key |-> SsrKey(r), value |-> responses[r][1].body,
                               ttl |-> 86400000]>>
               /\ Count(log[r], "cache.set") = 1
               /\ AllBefore(log[r], "res.end", "cache.set")
               /\ Then(log[r], "res.end", "cache.set"))
    /\ [][\A r \in Requests :
            (pc[r] = "cache.set" /\ pc'[r] = "done" /\ cache' # cache)
            => /\ SsrKey(r) \in DOMAIN cache'
               /\ cache'[SsrKey(r)] = [value |-> responses[r][1].body, ttl |-> 86400000]
               /\ \A k \in DOMAIN cache : k # SsrKey(r) =>
                     (k \in DOMAIN cache' /\ cache'[k] = cache[k])]_vars

C4_Witness ==
    \E r \in Requests :
        /\ isProd
        /\ RenderSucceeded(r)
        /\ pc[r] = "done"
        /\ req[r].query # <<>>
        /\ SsrKey(r) \in DOMAIN cache
        /\ cache[SsrKey(r)].value = responses[r][1].body

\* C5: when render rejects, the request is answered 200 with the template
\* less its app-outlet marker, the error does not reach next, and the request
\* issues no cache write.
C5_RenderFailureDegrades ==
    \A r \in Requests :
        Then(log[r], "render", "throw")
        => /\ pc[r] = "done"
           /\ Len(responses[r]) = 1
           /\ responses[r][1].status = 200
           /\ responses[r][1].type = "text/html"
           /\ IsShellOf(responses[r][1].body, The(template[r]))
           /\ NextCalls(r) = 0
           /\ sets[r] = <<>>
           /\ Count(log[r], "cache.set") = 0

C5_Witness ==
    \E r \in Requests :
        /\ isProd
        /\ Then(log[r], "render", "throw")
        /\ \E i \in 1..Len(The(template[r])) : The(template[r])[i] = SSR_OUTLET
        /\ Len(responses[r]) = 1

\* C6: a cache read that rejects is treated as a miss; the request still ends
\* in a response or a delegation.
C6_GetFailureIsMiss ==
    \A r \in Requests :
        (Then(log[r], "cache.get", "throw") /\ Finished(r))
        => Len(responses[r]) + NextCalls(r) >= 1

\* C7: a cache write that rejects is dropped; the response already sent is
\* the only one, no further response is attempted and no error reaches next.
C7_SetFailureDropped ==
    \A r \in Requests :
        Then(log[r], "cache.set", "throw")
        => /\ Len(responses[r]) = 1
           /\ Count(log[r], "res.set") = 0
           /\ Count(log[r], "next(e)") = 0

\* C8 as stated: a getPrefetchData failure is delegated to the next handler
\* and is not answered with the degraded shell.
C8_PrefetchFailureDelegated ==
    \A r \in Requests :
        Then(log[r], "getPrefetchData", "throw")
        => /\ responses[r] = <<>>
           /\ Count(log[r], "next(e)") = 1

\* C8 amended: a getPrefetchData failure degrades like a render failure: the
\* request is answered 200 with the template less its app-outlet marker,
\* render is not invoked and nothing is delegated to the next handler.
C8_PrefetchFailureDegrades ==
    \A r \in Requests :
        Then(log[r], "getPrefetchData", "throw")
        => /\ pc[r] = "done"
           /\ Len(responses[r]) = 1
           /\ responses[r][1].status = 200
           /\ IsShellOf(responses[r][1].body, The(template[r]))
           /\ Count(log[r], "render") = 0
           /\ NextCalls(r) = 0
           /\ sets[r] = <<>>

C8_Witness ==
    \E r \in Requests :
        /\ Then(log[r], "getPrefetchData", "throw")
        /\ ~isProd
        /\ Len(responses[r]) = 1
        /\ \E i \in 1..Len(The(template[r])) : The(template[r])[i] = SSR_OUTLET

\* C9: a failure of a loading step sends nothing, renders nothing, writes no
\* cache entry and hands the error to next exactly once; in development the
\* stack trace is remapped just before the error is recorded whenever the
\* dev server exists when the error is caught.
C9_LoadFailureDelegated ==
    /\ [](\A r \in Requests :
            LoadFailed(r)
            => /\ pc[r] = "done"
               /\ responses[r] = <<>>
               /\ Count(log[r], "render") = 0
               /\ sets[r] = <<>>
               /\ Count(log[r], "next(e)") = 1
               /\ Count(log[r], "next()") = 0
               /\ log[r][Len(log[r])] = "next(e)"
               /\ Count(log[r], "ssrFixStacktrace") = 1
                    => (~isProd /\ vite # NoVite
                        /\ Then(log[r], "ssrFixStacktrace", "console.error")))
    /\ [][\A r \in Requests :
            (/\ ~isProd
             /\ vite' # NoVite
             /\ pc[r] # "done"
             /\ pc'[r] = "done"
             /\ LoadFailed(r)')
            => Then(log'[r], "ssrFixStacktrace", "console.error")]_vars

C9_Witness ==
    \E r, o \in Requests :
        /\ ~isProd
        /\ Then(log[r], "ssrLoadModule", "throw")
        /\ Then(log[r], "ssrFixStacktrace", "console.error")
        /\ Then(log[o], "require(manifest)", "throw")
        /\ Count(log[o], "ssrFixStacktrace") = 0

\* C10: in development a request whose manifest cannot be loaded still goes
\* on to the dev server and the template and is answered with a page.
C10_DevManifestOptional ==
    \A r \in Requests :
        (~isProd /\ Then(log[r], "require(manifest)", "throw"))
        => /\ Count(log[r], "next(e)") = 0 \/ Count(log[r], "readFileSync") = 1
           /\ Count(log[r], "createServer") = 1 \/ vite # NoVite

\* C11: in development the dev module server is constructed at most once and
\* the handle, once set, is never replaced by another instance (instances
\* are numbered in their order of construction, so the first is 1).
C11_SingleDevServer ==
    /\ viteMade <= 1
    /\ vite \in {NoVite, 1}

\* ------------------------------------------------- claims on the assembler
Orders ==
    {o \in [1..6 -> Markers] : \A i, j \in 1..6 : o[i] = o[j] => i = j}

Has(s, e) == \E i \in 1..Len(s) : s[i] = e

AllSixOnce(t) == \A m \in Markers : Count(t, m) = 1

AtMostOnce(t) == \A m \in Markers : Count(t, m) <= 1

\* no string of the render result holds marker text or a "$&" pattern
Plain(s) == \A i \in 1..Len(s) : s[i] \notin Markers \cup {"$&"}

Clean(res) ==
    /\ Plain(res.html)
    /\ Plain(res.headTags)
    /\ Plain(res.htmlAttrs)
    /\ Plain(res.bodyAttrs)
    /\ Plain(res.preloadLinks)

\* what stands in the page for one token of the template
Image(x, res) ==
    CASE x = PRELOAD_LINKS -> res.preloadLinks
      [] x = HTML_TAG -> <<"<html ">> \o res.htmlAttrs \o <<">">>
      [] x = BODY_TAG -> <<"<body ">> \o res.bodyAttrs \o <<">">>
      [] x = HEAD_END -> res.headTags \o <<"</head>">>
      [] x = SSR_OUTLET -> res.html
      [] x = PRELOAD_STATE ->
           <<"<script>window.__PRELOAD_STATE__ = ", "{\"x\":1}", "</script>">>
      [] OTHER -> <<x>>

\* the template with every token replaced by its image, all at once
RECURSIVE Spliced(_, _)
Spliced(t, res) ==
    IF t = <<>> THEN <<>> ELSE Image(Head(t), res) \o Spliced(Tail(t), res)

IsSsr(k) == Len(k) >= 1 /\ k[1] = "ssr:"

LastLog(c) == c.log[Len(c.log)]

\* the request's cache write has been applied to the store
Wrote(r) ==
    /\ pc[r] = "done"
    /\ log[r] # <<>>
    /\ log[r][Len(log[r])] = "cache.set"

\* C15: clearCache deletes ssr: keys only and misses none of those it found:
\* every key it enumerates has the prefix, while its deletions are running
\* and no write has been applied since the enumeration each ssr: key of the
\* store is one it still has to delete, it completes only when every deletion
\* has resolved, and every key without the prefix stays in the store with its
\* value.
C15_ClearFrame ==
    /\ \A k \in clr.keys \cup clr.pending : IsSsr(k)
    /\ clr.pending \subseteq clr.keys
    /\ \A k \in DOMAIN InitCache : k \in DOMAIN cache /\ cache[k] = InitCache[k]
    /\ \A k \in DOMAIN cache : ~IsSsr(k) => k \in DOMAIN InitCache
    /\ (clr.pc = "del" /\ WritesApplied = clr.stamp)
         => \A k \in DOMAIN cache : IsSsr(k) => k \in clr.pending
    /\ clr.pc = "done" => clr.pending = {}

C15_Witness ==
    /\ clr.pc = "done"
    /\ Cardinality(clr.keys) = 2
    /\ DOMAIN cache = DOMAIN InitCache
    /\ cache = InitCache

\* C16 as stated: a clearCache that completes hands its caller the number of
\* entries it removed.
C16_ReturnsCount ==
    clr.pc = "done" => clr.ret = Some(Cardinality(clr.keys))

\* C16 amended: a clearCache that completes hands its caller nothing; the
\* number of ssr: keys it deleted is written to the console, and when there
\* was none the console line says so.
C16_LogsCount ==
    clr.pc = "done"
    => /\ clr.ret = Undefined
       /\ Len(clr.log) = 1
       /\ LastLog(clr) = IF clr.keys = {}
                         THEN <<"No SSR cache to clear", 0>>
                         ELSE <<"SSR cache cleared", Cardinality(clr.keys)>>

C16_Witness ==
    /\ clr.pc = "done"
    /\ Cardinality(clr.keys) = 2
    /\ clr.ret = Undefined
    /\ LastLog(clr) = <<"SSR cache cleared", 2>>

\* C17: a rejection of store.keys, or of a deletion while clearCache waits
\* for its deletions, makes clearCache reject; a clearCache that has rejected
\* never completes, and one that completed caught no error.
C17_FailureRethrown ==
    /\ [](/\ clr.pc = "done"
             => \A i \in 1..Len(clr.log) :
                   clr.log[i][1] # "Failed to clear SSR cache"
          /\ clr.pc = "rejected"
             => /\ clr.ret = Undefined
                /\ Len(clr.log) = 1
                /\ LastLog(clr) = <<"Failed to clear SSR cache", 0>>)
    /\ [][/\ (KeysReject \/ (clr.pc = "del" /\ DelRejects))
             => clr'.pc = "rejected"
          /\ clr.pc = "rejected" => clr'.pc = "rejected"]_vars

C17_Witness ==
    /\ clr.pc = "rejected"
    /\ Cardinality(clr.keys) = 2
    /\ clr.pending = {}
    /\ \E k \in clr.keys : k \in DOMAIN cache
    /\ \E k \in clr.keys : k \notin DOMAIN cache

\* ----------------------------------------------------- cache content claims
Logged(r, e) == \E i \in 1..Len(log[r]) : log[r][i] = e

\* C18: every ssr: entry of the store was written by a production request
\* whose render succeeded, under that request's key, and holds the whole page
\* that request assembled and sent; in development the store is never read or
\* written; a request whose render did not succeed issues no cache write.
C18_OnlySuccessfulProdRenders ==
    /\ \A k \in DOMAIN cache :
          IsSsr(k)
          => \E r \in Requests :
                /\ isProd
                /\ RenderSucceeded(r)
                /\ Wrote(r)
                /\ k = <<"ssr:">> \o originalUrl(req[r])
                /\ cache[k].value = responses[r][1].body
                /\ cache[k].value = Assemble(The(template[r]), The(result[r]))
                /\ cache[k].ttl = 86400000
    /\ \A k \in DOMAIN cache : ~IsSsr(k) => k \in DOMAIN InitCache
    /\ ~isProd
       => /\ cache = InitCache
          /\ \A r \in Requests :
                /\ sets[r] = <<>>
                /\ ~Logged(r, "cache.get")
                /\ ~Logged(r, "hit")
                /\ ~Logged(r, "miss")
                /\ ~Logged(r, "cache.set")
    /\ \A r \in Requests :
          ~RenderSucceeded(r) => (sets[r] = <<>> /\ ~Logged(r, "cache.set"))

C18_Witness ==
    \E r, o \in Requests :
        /\ isProd
        /\ Wrote(r)
        /\ SsrKey(r) \in DOMAIN cache
        /\ cache[SsrKey(r)].value = Assemble(The(template[r]), The(result[r]))
        /\ pc[o] = "done"
        /\ Logged(o, "miss")
        /\ ~RenderSucceeded(o)
        /\ Len(responses[o]) = 1
        /\ SsrKey(o) \notin DOMAIN cache

\* C19: two production requests for the same page URL that both read a miss
\* and both run to their end without a failure each call render once and each
\* issue and have applied one cache write under the same key, neither is held
\* back for the other; and the write that is applied replaces whatever entry
\* another request for that URL left, so the entry is the page of the last
\* write applied, one of the pages those requests wrote.
SamePageMissed(a, b) ==
    /\ a # b
    /\ isProd
    /\ Finished(a) /\ Finished(b)
    /\ Logged(a, "miss") /\ Logged(b, "miss")
    /\ req[a] = req[b]
    /\ ~Bypass(req[a].path)
    /\ ~Logged(a, "throw") /\ ~Logged(b, "throw")

C19_NoSingleFlight ==
    /\ [](\A a, b \in Requests :
            SamePageMissed(a, b)
            => /\ Count(log[a], "render") = 1
               /\ ~Logged(a, "hit")
               /\ Len(sets[a]) = 1
               /\ sets[a][1].key = SsrKey(b)
               /\ sets[a][1].value = responses[a][1].body
               /\ Wrote(a)
               /\ SsrKey(a) \in DOMAIN cache
                  => \E c \in Requests :
                        /\ req[c] = req[a]
                        /\ Wrote(c)
                        /\ cache[SsrKey(a)].value = responses[c][1].body)
    /\ [][\A a, b \in Requests :
            (/\ a # b
             /\ req[a] = req[b]
             /\ Wrote(b)
             /\ pc[a] = "cache.set" /\ pc'[a] = "done" /\ log'[a] = log[a])
            => /\ SsrKey(a) \in DOMAIN cache'
               /\ cache'[SsrKey(a)].value = responses[a][1].body]_vars

C19_Witness ==
    \E a, b \in Requests :
        /\ SamePageMissed(a, b)
        /\ Wrote(a) /\ Wrote(b)
        /\ responses[a][1].body # responses[b][1].body
        /\ SsrKey(a) \in DOMAIN cache
        /\ cache[SsrKey(a)].value = responses[a][1].body

\* C20: once clearCache has completed, an ssr: key is in the store only if a
\* cache write was applied after the keys were enumerated; with no such write
\* the store holds no ssr: key.
C20_ClearedUnlessWritten ==
    clr.pc = "done"
    => /\ WritesApplied = clr.stamp => \A k \in DOMAIN cache : ~IsSsr(k)
       /\ \A k \in DOMAIN cache :
             IsSsr(k) => (WritesApplied > clr.stamp
                          /\ \E r \in Requests : Wrote(r) /\ SsrKey(r) = k)

\* a request that was past its cache read when the keys were enumerated has
\* written since, and its entry is in the store after the clear completed
C20_Witness ==
    /\ clr.pc = "done"
    /\ clr.keys # {}
    /\ \E r \in clr.past :
          /\ Wrote(r)
          /\ SsrKey(r) \in DOMAIN cache
          /\ cache[SsrKey(r)].value = responses[r][1].body

====
